---- MODULE Spec2Model ----
(***************************************************************************)
(* A model of notion-tidy's dead-ends.py: title resolution, the untitled-  *)
(* page stream, content text extraction, the emptiness check, the title    *)
(* suggestion call and the per-page action dispatch loop.                  *)
(*                                                                         *)
(* Python strings are sequences of one-character strings, so that lower(), *)
(* strip() and join() are computed rather than assumed.                    *)
(***************************************************************************)
EXTENDS Integers, Sequences, FiniteSets, TLC

VARIABLES
  input,            \* harness: the argument handed to the function under test
  output,           \* harness: [fn, ...] what the function returned
  auto_apply,       \* args.auto_apply
  pc,               \* position of the main loop
  gpc,              \* position of the stream_untitled_pages generator
  cursor,           \* generator local: cursor
  response,         \* generator local: response of the last search
  idx,              \* generator local: pages of response["results"] consumed
  searches,         \* history: number of search calls issued
  sent,             \* history: start_cursor passed to the last search
  prev_next,        \* history: next_cursor of the response before that search
  yielded,          \* history: indexes of the current response that were yielded
  page,             \* main local: page
  blocks1,          \* history: block list returned to get_page_content_text
  relisted,         \* history: how the second listing compared to the first
  raw_text,         \* main local: raw_text
  suggested_title,  \* main local: suggested_title
  empty,            \* history: what is_empty(page_id) returned
  llm,              \* history: outcome of the model call of this page
  answer,           \* history: raw line the user typed at the last prompt
  calls,            \* history: remote calls and prompts issued for this page
  abort             \* the call whose error ended the run

vars == <<input, output, auto_apply, pc, gpc, cursor, response, idx, searches,
          sent, prev_next, yielded, page, blocks1, relisted, raw_text,
          suggested_title, empty, llm, answer, calls, abort>>

runVars == <<auto_apply, pc, gpc, cursor, response, idx, searches,
             sent, prev_next, yielded, page, blocks1, relisted, raw_text,
             suggested_title, empty, llm, answer, calls, abort>>

harnessVars == <<input, output>>

----------------------------------------------------------------------------
(* Bounds of the model. *)

MaxExtraSpans == 1   \* title spans after the first
MaxSpans == 2        \* rich-text spans of one block
MaxResults == 2      \* pages in one search response
MaxSearches == 2     \* search calls in one run

----------------------------------------------------------------------------
(* Python strings. *)

Uppers == <<"A","B","C","D","E","F","G","H","I","J","K","L","M",
            "N","O","P","Q","R","S","T","U","V","W","X","Y","Z">>
Lowers == <<"a","b","c","d","e","f","g","h","i","j","k","l","m",
            "n","o","p","q","r","s","t","u","v","w","x","y","z">>

Whitespace == {" ", "\t", "\n"}

LowerChar(c) ==
  IF \E i \in DOMAIN Uppers : Uppers[i] = c
  THEN Lowers[CHOOSE i \in DOMAIN Uppers : Uppers[i] = c]
  ELSE c

UpperChar(c) ==
  IF \E i \in DOMAIN Lowers : Lowers[i] = c
  THEN Uppers[CHOOSE i \in DOMAIN Lowers : Lowers[i] = c]
  ELSE c

\* str.lower()
Lower(s) == [i \in DOMAIN s |-> LowerChar(s[i])]

RECURSIVE LStrip(_)
LStrip(s) ==
  IF s = <<>> THEN <<>>
  ELSE IF Head(s) \in Whitespace THEN LStrip(Tail(s)) ELSE s

RECURSIVE RStrip(_)
RStrip(s) ==
  IF s = <<>> THEN <<>>
  ELSE IF s[Len(s)] \in Whitespace THEN RStrip(SubSeq(s, 1, Len(s) - 1)) ELSE s

\* str.strip()
Strip(s) == RStrip(LStrip(s))

\* " ".join(parts)
RECURSIVE Join(_)
Join(parts) ==
  IF parts = <<>> THEN <<>>
  ELSE IF Len(parts) = 1 THEN parts[1]
  ELSE parts[1] \o <<" ">> \o Join(Tail(parts))

\* A Python value that may or may not be a string.
Str(s) == [kind |-> "str", s |-> s]
PyNone == [kind |-> "none", s |-> <<>>]
PyInt == [kind |-> "int", s |-> <<>>]

\* The outcome of a call: a returned value or a raised exception.
Returned(v) == [raised |-> FALSE, val |-> v]
Raised == [raised |-> TRUE, val |-> PyNone]

SentinelUntitled == <<"[", "U", "n", "t", "i", "t", "l", "e", "d", "]">>
NoContent == <<"[", "N", "o", " ", "c", "o", "n", "t", "e", "n", "t", "]">>
LLMError == <<"[", "L", "L", "M", " ", "e", "r", "r", "o", "r", ":", " ",
              "n", "o", " ", "t", "i", "t", "l", "e", "]">>
Yes == <<"y", "e", "s">>
UntitledWords == { <<>>,
                   <<"u", "n", "t", "i", "t", "l", "e", "d">>,
                   <<"[", "u", "n", "t", "i", "t", "l", "e", "d", "]">> }

----------------------------------------------------------------------------
(* Title resolution.  A page is [has_properties, properties]; properties   *)
(* are the values of the mapping in order, each [type, has_title, title];  *)
(* a title span is [has_text, has_content, content].                       *)

\* title_list[0]["text"]["content"], or the handler's result on KeyError
FirstSpanContent(title_list) ==
  LET span == title_list[1] IN
  IF span.has_text /\ span.has_content THEN span.content
  ELSE Str(SentinelUntitled)

RECURSIVE ScanProperties(_)
ScanProperties(props) ==
  IF props = <<>> THEN Str(SentinelUntitled)
  ELSE LET prop == Head(props) IN
       IF prop.type = "title"
       THEN LET title_list == IF prop.has_title THEN prop.title ELSE <<>> IN
            IF title_list # <<>> THEN FirstSpanContent(title_list)
            ELSE Str(<<>>)
       ELSE ScanProperties(Tail(props))

extract_title(p) ==
  ScanProperties(IF p.has_properties THEN p.properties ELSE <<>>)

\* A variant of TitleIsBlank that compares without lowercasing.
TitleIsBlankCaseSensitive(title) == title \in UntitledWords

\* title.lower() in ["", "untitled", "[untitled]"]
TitleIsBlank(title) == Lower(title) \in UntitledWords

\* Raises AttributeError when the title is not a string.
is_untitled(p) ==
  LET title == extract_title(p) IN
  IF title.kind # "str" THEN Raised
  ELSE Returned(TitleIsBlank(title.s))

----------------------------------------------------------------------------
(* Blocks.  A block is [type, has_data, has_rich_text, rich_text, other]:  *)
(* has_data says the block carries the key named by its type,              *)
(* has_rich_text that this data has a "rich_text" key, other that it has   *)
(* any other key.  A rich-text span is [type, content].                    *)

TextTypes == {"paragraph", "heading_1", "heading_2", "heading_3"}
RichTextTypes == {"to_do", "callout", "toggle", "quote", "code"}
AlwaysVisibleTypes == {"image", "video", "file", "embed", "equation", "pdf",
                       "bookmark", "table", "table_row", "synced_block",
                       "link_to_page"}

\* block.get(block_type, {}) has the key "rich_text"
HasRichTextKey(block) == block.has_data /\ block.has_rich_text

\* bool(block_data)
DataNonEmpty(block) == block.has_data /\ (block.has_rich_text \/ block.other)

\* Contents of the "text" spans of a rich-text list, in order.
RECURSIVE TextSpanContents(_)
TextSpanContents(rich_text) ==
  IF rich_text = <<>> THEN <<>>
  ELSE (IF Head(rich_text).type = "text" THEN <<Head(rich_text).content>>
        ELSE <<>>) \o TextSpanContents(Tail(rich_text))

\* A variant of QualifiesForText that also takes the other text-bearing types.
QualifiesForTextWide(block_type) == block_type \in TextTypes \cup RichTextTypes

\* block_type in ["paragraph", "heading_1", "heading_2", "heading_3"]
QualifiesForText(block_type) == block_type \in TextTypes

\* The text_content list after the loop over blocks.
RECURSIVE CollectText(_)
CollectText(blocks) ==
  IF blocks = <<>> THEN <<>>
  ELSE LET block == Head(blocks) IN
       (IF QualifiesForText(block.type)
        THEN TextSpanContents(IF block.has_rich_text THEN block.rich_text
                              ELSE <<>>)
        ELSE <<>>) \o CollectText(Tail(blocks))

\* block[block_type] raises KeyError on a qualifying block without its data.
TextRaises(blocks) ==
  \E i \in DOMAIN blocks :
    QualifiesForText(blocks[i].type) /\ ~blocks[i].has_data

get_page_content_text(blocks) ==
  IF TextRaises(blocks) THEN Raised
  ELSE Returned(Strip(Join(CollectText(blocks))))

\* A variant of HasVisibleText that looks at the first span only.
HasVisibleTextFirstSpan(rich_text) ==
  /\ rich_text # <<>>
  /\ rich_text[1].type = "text"
  /\ Strip(rich_text[1].content) # <<>>

\* Some "text" span of the list has non-blank content.
HasVisibleText(rich_text) ==
  \E i \in DOMAIN rich_text :
    rich_text[i].type = "text" /\ Strip(rich_text[i].content) # <<>>

\* What the loop body decides for one block: "not_empty" returns False,
\* "next" goes on to the next block.
BlockVerdict(block) ==
  IF HasRichTextKey(block)
  THEN (IF HasVisibleText(block.rich_text) THEN "not_empty" ELSE "next")
  ELSE IF block.type \in RichTextTypes
  THEN (IF HasRichTextKey(block) /\ HasVisibleText(block.rich_text)
        THEN "not_empty" ELSE "next")
  ELSE IF block.type \in AlwaysVisibleTypes THEN "not_empty"
  ELSE IF DataNonEmpty(block) THEN "not_empty"
  ELSE "next"

RECURSIVE is_empty(_)
is_empty(blocks) ==
  IF blocks = <<>> THEN TRUE
  ELSE IF BlockVerdict(Head(blocks)) = "not_empty" THEN FALSE
  ELSE is_empty(Tail(blocks))

----------------------------------------------------------------------------
(* The state of a run that has not started: what the harnesses of the pure *)
(* functions leave untouched.                                              *)

NoCursor == "<None>"      \* Python None
NoResponse == [results |-> <<>>, next_cursor |-> NoCursor]
NoPage == [has_properties |-> FALSE, properties |-> <<>>]
NoLLM == [kind |-> "none", text |-> <<>>]
NoOutput == [fn |-> "none"]

RunFresh(p) ==
  /\ pc = p
  /\ gpc = "search"
  /\ cursor = NoCursor
  /\ response = NoResponse
  /\ idx = 0
  /\ searches = 0
  /\ sent = NoCursor
  /\ prev_next = NoCursor
  /\ yielded = <<>>
  /\ page = NoPage
  /\ blocks1 = <<>>
  /\ relisted = "none"
  /\ raw_text = <<>>
  /\ suggested_title = <<>>
  /\ empty = FALSE
  /\ llm = NoLLM
  /\ answer = <<>>
  /\ calls = <<>>
  /\ abort = "none"

----------------------------------------------------------------------------
(* Harness of title resolution: every page of TitlePages is handed to     *)
(* extract_title and to is_untitled.                                       *)

CaseVariants(w) ==
  { [i \in DOMAIN w |-> IF i \in S THEN UpperChar(w[i]) ELSE w[i]] :
      S \in SUBSET (DOMAIN w) }

BlankTitles == UNION { CaseVariants(w) : w \in UntitledWords }

OtherTitles == { <<"n", "o", "t", "e", "s">>,
                 <<"u", "n", "t", "i", "t", "l", "e", "d", " ">>,
                 <<" ", "u", "n", "t", "i", "t", "l", "e", "d">>,
                 <<"u", "n", "t", "i", "t", "l", "e">>,
                 <<"(", "u", "n", "t", "i", "t", "l", "e", "d", ")">>,
                 <<" ">> }

TitleContents == { Str(t) : t \in BlankTitles \cup OtherTitles }
                   \cup {PyNone, PyInt}

Span(c) == [has_text |-> TRUE, has_content |-> TRUE, content |-> c]
SpanNoText == [has_text |-> FALSE, has_content |-> FALSE, content |-> PyNone]
SpanNoContent == [has_text |-> TRUE, has_content |-> FALSE, content |-> PyNone]

FirstSpans == { Span(c) : c \in TitleContents } \cup {SpanNoText, SpanNoContent}

LaterSpans == { Span(Str(<<"n", "o", "t", "e", "s">>)),
                Span(Str(<<"u", "n", "t", "i", "t", "l", "e", "d">>)) }

SeqsUpTo(S, n) == UNION { [1..k -> S] : k \in 0..n }

TitleProp(spans) == [type |-> "title", has_title |-> TRUE, title |-> spans]
TitlePropNoList == [type |-> "title", has_title |-> FALSE, title |-> <<>>]
TextProp == [type |-> "rich_text", has_title |-> FALSE, title |-> <<>>]

\* Title properties with at most n spans after the first.
TitleProps(n) ==
  { TitleProp(<<f>> \o r) : f \in FirstSpans, r \in SeqsUpTo(LaterSpans, n) }
    \cup {TitleProp(<<>>), TitlePropNoList}

PageOf(props) == [has_properties |-> TRUE, properties |-> props]

TitlePages(n) ==
  { PageOf(pre \o <<t>>) : pre \in {<<>>, <<TextProp>>}, t \in TitleProps(n) }
    \cup {NoPage, PageOf(<<>>), PageOf(<<TextProp>>)}

TitleInit ==
  /\ input \in TitlePages(MaxExtraSpans)
  /\ output = NoOutput
  /\ auto_apply = FALSE
  /\ RunFresh("idle")

CallExtractTitle ==
  /\ output.fn = "none"
  /\ output' = [fn |-> "extract_title", title |-> extract_title(input),
                res |-> Returned(FALSE)]
  /\ UNCHANGED <<input, runVars>>

CallIsUntitled ==
  /\ output.fn = "none"
  /\ output' = [fn |-> "is_untitled", title |-> extract_title(input),
                res |-> is_untitled(input)]
  /\ UNCHANGED <<input, runVars>>

TitleNext == CallExtractTitle \/ CallIsUntitled

TitleSpec == TitleInit /\ [][TitleNext]_vars

----------------------------------------------------------------------------
(* Claims about title resolution, under TitleSpec.                         *)

\* The first property typed "title" of a page that has one.
HasTitleProperty(p) ==
  p.has_properties /\ \E i \in DOMAIN p.properties : p.properties[i].type = "title"

TheTitleProperty(p) ==
  LET i == CHOOSE i \in DOMAIN p.properties :
             /\ p.properties[i].type = "title"
             /\ \A j \in 1..(i - 1) : p.properties[j].type # "title"
  IN p.properties[i]

\* The page's title holds a first span whose content is a string.
HasStringTitle(p) ==
  /\ HasTitleProperty(p)
  /\ TheTitleProperty(p).has_title
  /\ TheTitleProperty(p).title # <<>>
  /\ TheTitleProperty(p).title[1].has_text
  /\ TheTitleProperty(p).title[1].has_content
  /\ TheTitleProperty(p).title[1].content.kind = "str"

HasEmptyTitle(p) ==
  /\ HasTitleProperty(p)
  /\ TheTitleProperty(p).has_title
  /\ TheTitleProperty(p).title = <<>>

\* The page with every title list cut down to its first span.
FirstSpanOnly(p) ==
  [p EXCEPT !.properties =
     [i \in DOMAIN p.properties |->
        [p.properties[i] EXCEPT !.title =
           IF @ = <<>> THEN <<>> ELSE <<@[1]>>]]]

\* C6: is_untitled is True exactly when the first title span's content is a
\* case variant of "", "untitled" or "[untitled]" (or the span list is
\* empty), False for every other string title, and the spans after the
\* first do not change the result.
C6_UntitledByFirstSpan ==
  output.fn = "is_untitled" =>
    /\ HasEmptyTitle(input) => output.res = Returned(TRUE)
    /\ HasStringTitle(input) =>
         output.res =
           Returned(TheTitleProperty(input).title[1].content.s \in BlankTitles)
    /\ output.res = is_untitled(FirstSpanOnly(input))

C6_Witness ==
  /\ output.fn = "is_untitled"
  /\ HasStringTitle(input)
  /\ Len(TheTitleProperty(input).title) > 1
  /\ TheTitleProperty(input).title[1].content.s
       = <<"U", "n", "T", "i", "t", "l", "e", "D">>
  /\ output.res = Returned(TRUE)

\* A page whose title cannot be read as the string of a first span.
Malformed(p) ==
  \/ ~p.has_properties
  \/ ~HasTitleProperty(p)
  \/ /\ HasTitleProperty(p)
     /\ TheTitleProperty(p).has_title
     /\ TheTitleProperty(p).title # <<>>
     /\ \/ ~TheTitleProperty(p).title[1].has_text
        \/ ~TheTitleProperty(p).title[1].has_content
        \/ TheTitleProperty(p).title[1].content.kind # "str"

\* C7: is_untitled never raises, and every malformed page resolves to the
\* sentinel "[Untitled]" and is classified untitled.
C7_MalformedYieldsSentinel ==
  output.fn = "is_untitled" =>
    /\ ~output.res.raised
    /\ Malformed(input) =>
         /\ output.title = Str(SentinelUntitled)
         /\ output.res = Returned(TRUE)

----------------------------------------------------------------------------
(* Harness of the two block functions: every list of BlockLists is handed  *)
(* to get_page_content_text and to is_empty.                               *)

OtherTypes == {"divider", "child_page"}
BlockTypes == TextTypes \cup RichTextTypes \cup AlwaysVisibleTypes \cup OtherTypes

RT(type, content) == [type |-> type, content |-> content]

RichTextSpans == { RT("text", <<>>), RT("text", <<" ">>), RT("text", <<"a">>),
                   RT("text", <<"b", " ">>), RT("mention", <<"m">>) }

Block(type, rich_text, other) ==
  [type |-> type, has_data |-> TRUE, has_rich_text |-> TRUE,
   rich_text |-> rich_text, other |-> other]
BlockNoRichText(type, other) ==
  [type |-> type, has_data |-> TRUE, has_rich_text |-> FALSE,
   rich_text |-> <<>>, other |-> other]
BlockNoData(type) ==
  [type |-> type, has_data |-> FALSE, has_rich_text |-> FALSE,
   rich_text |-> <<>>, other |-> FALSE]

\* Blocks with at most n rich-text spans.
Blocks(n) ==
  { Block(t, r, o) : t \in BlockTypes, r \in SeqsUpTo(RichTextSpans, n),
                     o \in BOOLEAN }
    \cup { BlockNoRichText(t, o) : t \in BlockTypes, o \in BOOLEAN }
    \cup { BlockNoData(t) : t \in BlockTypes }

\* The blocks put before or after the block that varies.
ContextBlocks ==
  { Block("paragraph", <<RT("text", <<"c">>)>>, TRUE),
    Block("heading_3", <<RT("mention", <<"m">>), RT("text", <<" ", "d">>)>>, FALSE),
    BlockNoData("divider") }

BlockLists(n) ==
  {<<>>} \cup { <<b>> : b \in Blocks(n) }
    \cup { <<b, c>> : b \in Blocks(n), c \in ContextBlocks }
    \cup { <<c, b>> : b \in Blocks(n), c \in ContextBlocks }

BlocksInit ==
  /\ input \in BlockLists(MaxSpans)
  /\ output = NoOutput
  /\ auto_apply = FALSE
  /\ RunFresh("idle")

CallGetPageContentText ==
  /\ output.fn = "none"
  /\ output' = [fn |-> "get_page_content_text",
                res |-> get_page_content_text(input)]
  /\ UNCHANGED <<input, runVars>>

CallIsEmpty ==
  /\ output.fn = "none"
  /\ output' = [fn |-> "is_empty", res |-> Returned(is_empty(input))]
  /\ UNCHANGED <<input, runVars>>

BlocksNext == CallGetPageContentText \/ CallIsEmpty

BlocksSpec == BlocksInit /\ [][BlocksNext]_vars

----------------------------------------------------------------------------
(* Claims about the block functions, under BlocksSpec.                     *)

\* C2: a list holding a block of an always-visible type is never empty,
\* whatever data the block carries.
C2_AlwaysVisibleNotEmpty ==
  (/\ output.fn = "is_empty"
   /\ \E i \in DOMAIN input :
        input[i].type \in {"image", "video", "file", "embed", "equation",
                           "pdf", "bookmark", "table", "table_row",
                           "synced_block", "link_to_page"})
    => output.res = Returned(FALSE)

\* C3: a list holding a block whose data is non-empty, has no rich-text
\* list and whose type is not always-visible is never empty; this holds for
\* every block type, to_do, callout, toggle, quote and code included.
C3_CatchAllNotEmpty ==
  (/\ output.fn = "is_empty"
   /\ \E i \in DOMAIN input :
        /\ input[i].has_data
        /\ ~input[i].has_rich_text
        /\ input[i].other
        /\ input[i].type \notin {"image", "video", "file", "embed", "equation",
                                 "pdf", "bookmark", "table", "table_row",
                                 "synced_block", "link_to_page"})
    => output.res = Returned(FALSE)

\* The spans the claim counts: those of paragraphs and headings, in block
\* order then span order.
QualifyingSpans(blocks, n) ==
  LET F[k \in 0..n] ==
        IF k = 0 THEN <<>>
        ELSE F[k - 1] \o
             (IF blocks[k].type \in {"paragraph", "heading_1", "heading_2", "heading_3"}
              THEN SelectSeq(blocks[k].rich_text, LAMBDA t : t.type = "text")
              ELSE <<>>)
  IN F[n]

\* The contents of spans joined by single spaces, built from the right.
SpaceJoined(spans) ==
  LET n == Len(spans)
      G[k \in 0..n] ==
        IF k = 0 THEN <<>>
        ELSE IF k = 1 THEN spans[n].content
        ELSE spans[n - k + 1].content \o <<" ">> \o G[k - 1]
  IN G[n]

Trimmed(s) ==
  s = <<>> \/ (s[1] \notin {" ", "\t", "\n"} /\ s[Len(s)] \notin {" ", "\t", "\n"})

\* s is t with whitespace removed at both ends.
IsTrimOf(s, t) ==
  /\ Trimmed(s)
  /\ \E i \in 0..Len(t) : \E j \in 0..Len(t) :
       /\ i + j <= Len(t)
       /\ s = SubSeq(t, i + 1, Len(t) - j)
       /\ \A k \in 1..i : t[k] \in {" ", "\t", "\n"}
       /\ \A k \in (Len(t) - j + 1)..Len(t) : t[k] \in {" ", "\t", "\n"}

\* Every paragraph and heading of the list carries its data.
TextBlocksCarryData(blocks) ==
  \A i \in DOMAIN blocks :
    blocks[i].type \in {"paragraph", "heading_1", "heading_2", "heading_3"}
      => blocks[i].has_data

----------------------------------------------------------------------------
(* The run: the main loop pulling pages from stream_untitled_pages and     *)
(* dispatching on each.  Every remote call either returns or raises; an    *)
(* error that nothing catches ends the run (pc = "aborted").               *)

\* --confirm-delete is store_true with default True: it is always set.
confirm_delete == TRUE

Cursors == {NoCursor, "", "c1", "c2"}
RunCursors == {NoCursor, "c1"}

\* not cursor
Exhausted(c) == c \in {NoCursor, ""}

\* A variant of NextStartCursor that never takes the cursor of the response.
NextStartCursorStale(resp) == NoCursor

\* response.get("next_cursor")
NextStartCursor(resp) == resp.next_cursor

\* A variant of AfterDeletePrompt without the continue of a declined delete.
AfterDeletePromptFallsThrough(confirm) ==
  IF confirm = Yes THEN "delete" ELSE "update"

\* Where the loop goes after the deletion prompt was answered.
AfterDeletePrompt(confirm) == IF confirm = Yes THEN "delete" ELSE "pull"

\* Where the loop goes after the title prompt was answered.
AfterApplyPrompt(confirm) == IF confirm = Yes THEN "update" ELSE "pull"

\* What the model call can do: the POST fails, or it answers with a body.
LLMTexts == { <<" ", "T", "\n">>, <<" ">>, <<>> }
LLMOutcomes ==
  { [kind |-> k, text |-> <<>>] :
      k \in {"network_error", "not_json", "no_field", "non_string"} }
    \cup { [kind |-> "ok", text |-> t] : t \in LLMTexts }

\* response.json()["response"].strip(), or the handler's sentinel
ParseResponse(outcome) ==
  IF outcome.kind = "ok" THEN Strip(outcome.text) ELSE LLMError

\* requests.post is called outside the try block.
suggest_title_llm(text, outcome) ==
  IF outcome.kind = "network_error" THEN Raised
  ELSE Returned(ParseResponse(outcome))

Answers == { Yes, <<" ", "Y", "e", "S", " ">>, <<"n", "o">>, <<>> }

Call(op, title) == [op |-> op, title |-> title]
Issued(op) == \E i \in DOMAIN calls : calls[i].op = op
CountOf(op) == Cardinality({ i \in DOMAIN calls : calls[i].op = op })

RunPages ==
  { PageOf(<<TitleProp(<<>>)>>),
    PageOf(<<TitleProp(<<Span(Str(<<"n", "o", "t", "e", "s">>))>>)>>),
    PageOf(<<TitleProp(<<Span(PyNone)>>)>>) }

StreamPages ==
  { NoPage,
    PageOf(<<TitleProp(<<Span(Str(<<"n", "o", "t", "e", "s">>))>>)>>),
    PageOf(<<TitleProp(<<Span(PyNone)>>)>>),
    PageOf(<<TextProp, TitleProp(<<Span(Str(<<"U", "n", "t", "i", "t", "l", "e", "d">>)),
                                   Span(Str(<<"n", "o", "t", "e", "s">>))>>)>>) }

RunBlockLists ==
  { <<>>,
    <<Block("paragraph", <<RT("text", <<"a">>)>>, TRUE)>>,
    <<Block("paragraph", <<RT("text", <<" ">>)>>, FALSE)>>,
    <<Block("paragraph", <<RT("text", <<" ">>), RT("text", <<"a">>)>>, TRUE)>>,
    <<BlockNoData("image")>>,
    <<Block("to_do", <<RT("text", <<"e">>)>>, TRUE)>>,
    <<BlockNoData("paragraph")>>,
    <<Block("heading_1", <<RT("mention", <<"m">>)>>, FALSE)>>,
    <<BlockNoRichText("child_page", TRUE)>>,
    <<Block("image", <<>>, FALSE),
      Block("heading_2", <<RT("text", <<"b", " ">>)>>, FALSE)>>,
    <<BlockNoRichText("to_do", TRUE),
      Block("paragraph", <<RT("mention", <<"m">>), RT("text", <<" ", "d">>)>>, TRUE)>> }

Init ==
  /\ input = <<>>
  /\ output = NoOutput
  /\ auto_apply \in BOOLEAN
  /\ RunFresh("pull")

pageVars == <<page, blocks1, relisted, raw_text, suggested_title, empty, llm,
              answer, calls>>
genVars == <<gpc, cursor, response, idx, searches, sent, prev_next, yielded>>

Abort(what) == pc' = "aborted" /\ abort' = what

\* notion.search(..., start_cursor=cursor) returns a response.
Search(P, C) ==
  /\ pc = "pull" /\ gpc = "search" /\ searches < MaxSearches
  /\ \E results \in SeqsUpTo(P, MaxResults), nc \in C :
       response' = [results |-> results, next_cursor |-> nc]
  /\ searches' = searches + 1
  /\ sent' = cursor
  /\ prev_next' = response.next_cursor
  /\ idx' = 0
  /\ yielded' = <<>>
  /\ gpc' = "scan"
  /\ UNCHANGED <<harnessVars, auto_apply, pc, cursor, pageVars, abort>>

\* notion.search raises.
SearchFails ==
  /\ pc = "pull" /\ gpc = "search" /\ searches < MaxSearches
  /\ searches' = searches + 1
  /\ sent' = cursor
  /\ prev_next' = response.next_cursor
  /\ Abort("search")
  /\ UNCHANGED <<harnessVars, auto_apply, gpc, cursor, response, idx, yielded,
                 pageVars>>

\* The next page of the response is untitled: it is yielded to the loop.
Yield ==
  /\ pc = "pull" /\ gpc = "scan" /\ idx < Len(response.results)
  /\ is_untitled(response.results[idx + 1]) = Returned(TRUE)
  /\ idx' = idx + 1
  /\ yielded' = Append(yielded, idx + 1)
  /\ page' = response.results[idx + 1]
  /\ blocks1' = <<>>
  /\ relisted' = "none"
  /\ raw_text' = <<>>
  /\ suggested_title' = <<>>
  /\ empty' = FALSE
  /\ llm' = NoLLM
  /\ answer' = <<>>
  /\ calls' = <<>>
  /\ pc' = "body"
  /\ UNCHANGED <<harnessVars, auto_apply, gpc, cursor, response, searches, sent,
                 prev_next, abort>>

\* The next page of the response has a title: it is passed over.
Skip ==
  /\ pc = "pull" /\ gpc = "scan" /\ idx < Len(response.results)
  /\ is_untitled(response.results[idx + 1]) = Returned(FALSE)
  /\ idx' = idx + 1
  /\ UNCHANGED <<harnessVars, auto_apply, pc, gpc, cursor, response, searches,
                 sent, prev_next, yielded, pageVars, abort>>

\* is_untitled raises on the next page of the response.
ScanRaises ==
  /\ pc = "pull" /\ gpc = "scan" /\ idx < Len(response.results)
  /\ is_untitled(response.results[idx + 1]).raised
  /\ Abort("is_untitled")
  /\ UNCHANGED <<harnessVars, auto_apply, genVars, pageVars>>

\* The response is used up: take its cursor, stop when there is none.
NextCursor ==
  /\ pc = "pull" /\ gpc = "scan" /\ idx = Len(response.results)
  /\ cursor' = NextStartCursor(response)
  /\ IF Exhausted(cursor')
     THEN gpc' = "done" /\ pc' = "done"
     ELSE gpc' = "search" /\ pc' = pc
  /\ UNCHANGED <<harnessVars, auto_apply, response, idx, searches, sent,
                 prev_next, yielded, pageVars, abort>>

\* raw_text = get_page_content_text(page_id), then the choice of line 122.
ListBlocksText ==
  /\ pc = "body"
  /\ \E blocks \in RunBlockLists :
       LET r == get_page_content_text(blocks) IN
       /\ blocks1' = blocks
       /\ IF r.raised
          THEN Abort("get_page_content_text")
               /\ UNCHANGED <<raw_text, suggested_title>>
          ELSE /\ raw_text' = r.val
               /\ abort' = abort
               /\ IF r.val # <<>>
                  THEN pc' = "llm" /\ UNCHANGED suggested_title
                  ELSE pc' = "empty" /\ suggested_title' = NoContent
  /\ UNCHANGED <<harnessVars, auto_apply, genVars, page, relisted, empty, llm,
                 answer, calls>>

\* notion.blocks.children.list raises, in either of the two listings.
ListBlocksFails ==
  /\ pc \in {"body", "empty"}
  /\ Abort("list")
  /\ UNCHANGED <<harnessVars, auto_apply, genVars, pageVars>>

\* suggested_title = suggest_title_llm(raw_text)
SuggestTitle ==
  /\ pc = "llm"
  /\ \E outcome \in LLMOutcomes :
       LET r == suggest_title_llm(raw_text, outcome) IN
       /\ llm' = outcome
       /\ calls' = Append(calls, Call("generate", raw_text))
       /\ IF r.raised
          THEN Abort("suggest_title_llm") /\ UNCHANGED suggested_title
          ELSE suggested_title' = r.val /\ pc' = "empty" /\ abort' = abort
  /\ UNCHANGED <<harnessVars, auto_apply, genVars, page, blocks1, relisted,
                 raw_text, empty, answer>>

\* is_empty(page_id) and args.confirm_delete, then the branches of the loop
\* body up to the next prompt or remote call.
CheckEmpty ==
  /\ pc = "empty"
  /\ \E blocks \in RunBlockLists :
       /\ relisted' = IF blocks = blocks1 THEN "same" ELSE "changed"
       /\ empty' = is_empty(blocks)
       /\ IF is_empty(blocks) /\ confirm_delete
          THEN /\ calls' = Append(calls, Call("prompt_delete", <<>>))
               /\ pc' = "ask_delete"
          ELSE IF suggested_title # <<>>
          THEN IF auto_apply
               THEN pc' = "update" /\ calls' = calls
               ELSE /\ calls' = Append(calls, Call("prompt_apply", <<>>))
                    /\ pc' = "ask_apply"
          ELSE pc' = "pull" /\ calls' = calls
  /\ UNCHANGED <<harnessVars, auto_apply, genVars, page, blocks1, raw_text,
                 suggested_title, llm, answer, abort>>

\* confirm = input("Delete this empty page? (yes/no): ").strip().lower()
AnswerDelete ==
  /\ pc = "ask_delete"
  /\ \E a \in Answers :
       /\ answer' = a
       /\ pc' = AfterDeletePrompt(Lower(Strip(a)))
  /\ UNCHANGED <<harnessVars, auto_apply, genVars, page, blocks1, relisted,
                 raw_text, suggested_title, empty, llm, calls, abort>>

\* confirm = input("Apply this title? (yes/no): ").strip().lower()
AnswerApply ==
  /\ pc = "ask_apply"
  /\ \E a \in Answers :
       /\ answer' = a
       /\ pc' = AfterApplyPrompt(Lower(Strip(a)))
  /\ UNCHANGED <<harnessVars, auto_apply, genVars, page, blocks1, relisted,
                 raw_text, suggested_title, empty, llm, calls, abort>>

\* input() raises (end of input).
PromptFails ==
  /\ pc \in {"ask_delete", "ask_apply"}
  /\ Abort("input")
  /\ UNCHANGED <<harnessVars, auto_apply, genVars, pageVars>>

\* notion.blocks.delete(page_id), which returns or raises.
Delete ==
  /\ pc = "delete"
  /\ calls' = Append(calls, Call("delete", <<>>))
  /\ \E ok \in BOOLEAN :
       IF ok THEN pc' = "pull" /\ abort' = abort ELSE Abort("delete")
  /\ UNCHANGED <<harnessVars, auto_apply, genVars, page, blocks1, relisted,
                 raw_text, suggested_title, empty, llm, answer>>

\* notion.pages.update(page_id, title = suggested_title), which returns or
\* raises.
Update ==
  /\ pc = "update"
  /\ calls' = Append(calls, Call("update", suggested_title))
  /\ \E ok \in BOOLEAN :
       IF ok THEN pc' = "pull" /\ abort' = abort ELSE Abort("update")
  /\ UNCHANGED <<harnessVars, auto_apply, genVars, page, blocks1, relisted,
                 raw_text, suggested_title, empty, llm, answer>>

Next ==
  \/ Search(RunPages, RunCursors)
  \/ SearchFails
  \/ Yield
  \/ Skip
  \/ ScanRaises
  \/ NextCursor
  \/ ListBlocksText
  \/ ListBlocksFails
  \/ SuggestTitle
  \/ CheckEmpty
  \/ AnswerDelete
  \/ AnswerApply
  \/ PromptFails
  \/ Delete
  \/ Update

Spec == Init /\ [][Next]_vars

\* The stream alone, with a consumer that takes each page and asks for the
\* next one.
Consume ==
  /\ pc = "body"
  /\ pc' = "pull"
  /\ UNCHANGED <<harnessVars, auto_apply, genVars, pageVars, abort>>

StreamNext ==
  \/ Search(StreamPages, Cursors)
  \/ SearchFails
  \/ Yield
  \/ Skip
  \/ ScanRaises
  \/ NextCursor
  \/ Consume

\* The code is sequential and every call returns or raises: a step that can
\* be taken is taken.
StreamSpec == Init /\ [][StreamNext]_vars /\ WF_vars(StreamNext)

----------------------------------------------------------------------------
(* Claims about the run, under Spec.                                       *)

\* C1: whenever the model call of a page failed (network error on the POST,
\* a body that is not JSON, JSON without "response"), the suggestion is the
\* sentinel "[LLM error: no title]" and the run was not ended by that call.
C1_LLMFailureYieldsSentinel ==
  llm.kind \in {"network_error", "not_json", "no_field"} =>
    /\ abort # "suggest_title_llm"
    /\ suggested_title = LLMError

\* The user's line, trimmed and lowercased, is "yes".
Affirmative(a) == Lower(Strip(a)) = <<"y", "e", "s">>

\* The deletion prompt of this page has been answered.
DeleteAnswered ==
  Issued("prompt_delete") /\ pc # "ask_delete" /\ abort # "input"

\* C4: a delete call is issued only after the emptiness check returned
\* empty and the user answered yes to the deletion prompt; after any other
\* answer no delete and no title update is issued for the page and the loop
\* goes on to the next page.
C4_DeleteOnlyOnYes ==
  /\ Issued("delete") =>
       /\ empty
       /\ \E i \in DOMAIN calls : \E j \in DOMAIN calls :
            i < j /\ calls[i].op = "prompt_delete" /\ calls[j].op = "delete"
       /\ Affirmative(answer)
  /\ (DeleteAnswered /\ ~Affirmative(answer)) =>
       /\ ~Issued("delete")
       /\ ~Issued("update")
       /\ ~Issued("prompt_apply")
       /\ pc \in {"pull", "done", "aborted"}

C4_Witness ==
  /\ DeleteAnswered
  /\ answer = <<"n", "o">>
  /\ empty
  /\ auto_apply
  /\ suggested_title = NoContent
  /\ pc = "pull"
  /\ idx < Len(response.results)

\* The dispatch of the current page is over: the loop is back at the stream,
\* or the run ended in the model call or the title update.
PageHandled ==
  /\ calls # <<>> \/ raw_text # <<>>
  /\ \/ pc \in {"pull", "done"}
     \/ pc = "aborted" /\ abort \in {"suggest_title_llm", "update", "search",
                                     "is_untitled"}

\* C5: with --auto-apply, a page with non-empty extracted text gets exactly
\* one model call and exactly one title update carrying the suggestion, and
\* neither a deletion prompt nor a delete call.
C5_AutoApplyTitlesOnce ==
  (auto_apply /\ raw_text # <<>>) =>
    /\ ~Issued("prompt_delete")
    /\ ~Issued("delete")
    /\ PageHandled =>
         /\ CountOf("generate") = 1
         /\ CountOf("update") = 1
         /\ \A i \in DOMAIN calls :
              calls[i].op = "update" => calls[i].title = suggested_title

\* C10: when the second listing of a page returns the list of the first, a
\* non-empty extracted text means the emptiness check said not empty; so a
\* page offered for deletion had no model call and has the suggestion
\* "[No content]".
C10_TextMeansNotEmpty ==
  relisted = "same" =>
    /\ raw_text # <<>> => ~empty
    /\ Issued("prompt_delete") =>
         /\ ~Issued("generate")
         /\ llm = NoLLM
         /\ suggested_title = NoContent

C10_Witness ==
  /\ relisted = "same"
  /\ raw_text = <<"a">>
  /\ Len(blocks1[1].rich_text) = 2
  /\ Issued("generate")
  /\ ~empty
  /\ pc = "update"

\* The case C10 leaves open: the page changed between the two listings, and
\* a page with a model call is offered for deletion.
C10_ChangedListingOffersDelete ==
  /\ relisted = "changed"
  /\ Issued("generate")
  /\ Issued("prompt_delete")

----------------------------------------------------------------------------
(* Claims about the stream, under StreamSpec.                              *)

\* Indexes 1..n of the current response whose page is_untitled takes as
\* untitled, in increasing order.
UntitledIndexes(n) ==
  LET F[k \in 0..n] ==
        IF k = 0 THEN <<>>
        ELSE IF is_untitled(response.results[k]) = Returned(TRUE)
             THEN Append(F[k - 1], k) ELSE F[k - 1]
  IN F[n]

StreamSafe ==
  /\ searches = 1 => sent = NoCursor
  /\ searches >= 1 => sent = prev_next
  /\ yielded = UntitledIndexes(idx)
  /\ pc = "body" => /\ idx >= 1
                    /\ page = response.results[idx]
                    /\ is_untitled(page) = Returned(TRUE)
  /\ gpc = "done" => /\ searches >= 1
                     /\ response.next_cursor \in {NoCursor, ""}
                     /\ idx = Len(response.results)

StreamStep ==
  /\ searches' > searches =>
       /\ idx = Len(response.results)
       /\ pc = "pull"
       /\ searches >= 1 => response.next_cursor \notin {NoCursor, ""}
  /\ gpc = "done" => gpc' = "done" /\ searches' = searches

\* C9: the first search has no cursor and each later one the cursor of the
\* previous response; exactly the untitled pages are yielded, in order; the
\* next search is issued only when the current response is used up; no
\* search follows a response without cursor; and once such a response is
\* received the stream ends.
C9_StreamPaginates ==
  /\ []StreamSafe
  /\ [][StreamStep]_vars
  /\ (searches >= 1 /\ gpc = "scan" /\ response.next_cursor \in {NoCursor, ""})
       ~> (gpc = "done" \/ pc = "aborted")

C9_Witness ==
  /\ gpc = "done"
  /\ searches = 2
  /\ sent = "c2"
  /\ Len(response.results) = 2
  /\ yielded = <<2>>

====
